---------------------------- MODULE Spec2Model ----------------------------
(***************************************************************************)
(* A model of LIFNeuronGroup (src/src/lif/lif_neuron_group.py): the        *)
(* constructor's validation, the lifecycle operations resize,              *)
(* initialize_states and reset, and forward(), the single-timestep         *)
(* transition.                                                             *)
(*                                                                         *)
(* Numbers are exact rationals <<n, d>> (d > 0, lowest terms).  A tensor   *)
(* is a sequence of rows, each a sequence of entries, so that its shape    *)
(* is part of its value and the broadcasting rules of the tensor library   *)
(* are modelled by what they do.  Err (the empty sequence) is the result   *)
(* of an operation whose operand shapes cannot be broadcast together.      *)
(***************************************************************************)
EXTENDS Integers, Sequences, FiniteSets, TLC

\* ------------------------------------------------------------------ bounds

\* Largest batch dimension of an input tensor or of a lifecycle call.
MaxBatch == 2
\* Largest neuron dimension of an input tensor.
MaxWidth == 3
\* Number of calls made on one group after its construction.
\* The most entries the input of a step of a stochastic group has (each
\* entry costs one sample of the noise).
MaxSamples == 2

MaxCalls == 3

\* --------------------------------------------------------------- rationals

Abs(n) == IF n < 0 THEN -n ELSE n

RECURSIVE GCD(_, _)
GCD(a, b) == IF b = 0 THEN a ELSE GCD(b, a % b)

Norm(n, d) ==
    LET s == IF d < 0 THEN -1 ELSE 1
        g == GCD(Abs(n), Abs(d))
    IN  IF n = 0 THEN <<0, 1>> ELSE <<(s * n) \div g, (s * d) \div g>>

Q(n, d) == Norm(n, d)
Zero == <<0, 1>>
One == <<1, 1>>

RAdd(x, y) == Norm(x[1] * y[2] + y[1] * x[2], x[2] * y[2])
RSub(x, y) == Norm(x[1] * y[2] - y[1] * x[2], x[2] * y[2])
RMul(x, y) == Norm(x[1] * y[1], x[2] * y[2])
RDiv(x, y) == Norm(x[1] * y[2], x[2] * y[1])
RLt(x, y) == x[1] * y[2] < y[1] * x[2]
RLe(x, y) == x[1] * y[2] <= y[1] * x[2]
RMin(x, y) == IF RLt(y, x) THEN y ELSE x
RMax(x, y) == IF RLt(x, y) THEN y ELSE x

\* ----------------------------------------------------------------- tensors

Err == <<>>
\* An optional tensor argument that is not given.
None == <<>>

Rows(t) == Len(t)
Cols(t) == Len(t[1])
Shape(t) == <<Rows(t), Cols(t)>>

\* torch.full / torch.zeros / torch.ones
Full(r, c, v) == [i \in 1..r |-> [j \in 1..c |-> v]]

\* One dimension of the broadcast of two shapes; 0 when they cannot be
\* broadcast together.
Bc(a, b) == IF a = b THEN a ELSE IF a = 1 THEN b ELSE IF b = 1 THEN a ELSE 0

\* The entry of t that position (i, j) of a broadcast result reads.
At(t, i, j) == t[IF Rows(t) = 1 THEN 1 ELSE i][IF Cols(t) = 1 THEN 1 ELSE j]

\* An elementwise binary operation with broadcasting.
Zip(f(_, _), a, b) ==
    IF a = Err \/ b = Err THEN Err
    ELSE LET r == Bc(Rows(a), Rows(b))
             c == Bc(Cols(a), Cols(b))
         IN  IF r = 0 \/ c = 0 THEN Err
             ELSE [i \in 1..r |-> [j \in 1..c |-> f(At(a, i, j), At(b, i, j))]]

\* An elementwise unary operation (or an operation with a scalar).
Map(f(_), a) ==
    IF a = Err THEN Err
    ELSE [i \in 1..Rows(a) |-> [j \in 1..Cols(a) |-> f(a[i][j])]]

TAdd(a, b) == Zip(RAdd, a, b)
TSub(a, b) == Zip(RSub, a, b)
TMul(a, b) == Zip(RMul, a, b)
TScale(a, k) == LET f(x) == RMul(x, k) IN Map(f, a)
TDivS(a, k) == LET f(x) == RDiv(x, k) IN Map(f, a)
\* 1 - a
TOneMinus(a) == LET f(x) == RSub(One, x) IN Map(f, a)
\* spikes.float()
TFloat(b) == LET f(x) == IF x THEN One ELSE Zero IN Map(f, b)

RECURSIVE SumSeq(_)
SumSeq(s) == IF s = <<>> THEN Zero ELSE RAdd(s[1], SumSeq(Tail(s)))

RECURSIVE SumRows(_)
SumRows(t) == IF t = <<>> THEN Zero ELSE RAdd(SumSeq(t[1]), SumRows(Tail(t)))

\* Tensor.mean(): the scalar mean over all entries.
Mean(t) == RDiv(SumRows(t), <<Rows(t) * Cols(t), 1>>)

\* torch.clamp(t, lo, hi)
Clamp(t, lo, hi) == LET f(x) == RMin(RMax(x, lo), hi) IN Map(f, t)

\* torch.where(cond, scalar, t)
Where(cond, v, t) ==
    LET f(b, x) == IF b THEN v ELSE x IN Zip(f, cond, t)

\* Every tensor of shape (r, c) with entries in S.
Tensors(r, c, S) == [1..r -> [1..c -> S]]

Entries(t) == {t[i][j] : i \in 1..Rows(t), j \in 1..Cols(t)}


\* ------------------------------------------------------- constructor input

\* A valid argument list of LIFNeuronGroup.__init__.  The values are dyadic,
\* so every result below is also exact in the float32 arithmetic of the code.
BaseArgs ==
    [ num_neurons |-> 2,
      V_th |-> Q(1, 1),
      V_reset |-> Zero,
      tau |-> Q(2, 1),
      dt |-> One,
      eta |-> Q(1, 8),
      use_adaptive_threshold |-> TRUE,
      noise_std |-> Q(1, 2),
      stochastic |-> FALSE,
      min_threshold |-> Q(1, 2),
      max_threshold |-> Q(2, 1),
      batch_size |-> 1,
      device |-> "cpu",
      surrogate_gradient_function |-> "heaviside",
      alpha |-> One,
      allow_dynamic_spike_probability |-> TRUE,
      adaptation_decay |-> Q(1, 2),
      spike_increase |-> Q(1, 2),
      depression_rate |-> Q(1, 2),
      recovery_rate |-> Q(1, 4),
      neuromod_transform |-> "None",
      learnable_threshold |-> TRUE ]

\* The groups that are stepped.  Deterministic ones: the threshold starts
\* below, above or inside [min_threshold, max_threshold], adaptive clipping
\* is on or off, V_th is a parameter or a plain tensor, one neuron or two,
\* depression and recovery at the top of [0, 1], V_reset zero or not.
DeterministicArgs ==
    { [BaseArgs EXCEPT !.V_th = Q(1, 4)],
      [BaseArgs EXCEPT !.V_th = Q(3, 1), !.learnable_threshold = FALSE,
                       !.V_reset = Q(1, 4)],
      [BaseArgs EXCEPT !.V_th = Q(1, 4), !.use_adaptive_threshold = FALSE,
                       !.allow_dynamic_spike_probability = FALSE],
      [BaseArgs EXCEPT !.num_neurons = 1, !.learnable_threshold = FALSE,
                       !.neuromod_transform = "identity"],
      [BaseArgs EXCEPT !.V_th = Q(1, 4), !.depression_rate = One,
                       !.recovery_rate = One] }

\* Stochastic groups: two neurons with the dynamic-spike-probability
\* collaborator, one neuron without it.
StochasticArgs ==
    { [BaseArgs EXCEPT !.stochastic = TRUE, !.V_th = Q(3, 1)],
      [BaseArgs EXCEPT !.stochastic = TRUE, !.V_th = Q(3, 1), !.num_neurons = 1,
                       !.allow_dynamic_spike_probability = FALSE] }

GroupArgs == DeterministicArgs \cup StochasticArgs

\* The values the constructor is tried with, one parameter at a time and
\* two at a time: for each parameter a value that meets its constraint, one
\* on the edge of it and one that breaks it.
ArgValues ==
    [ num_neurons |-> {2, 0, -1},
      V_th |-> {Q(1, 1), Q(3, 1)},
      V_reset |-> {Zero},
      tau |-> {Q(2, 1), Zero, Q(-1, 1)},
      dt |-> {One, Zero},
      eta |-> {Q(1, 8)},
      use_adaptive_threshold |-> BOOLEAN,
      noise_std |-> {Q(1, 2), Zero, Q(-1, 2)},
      stochastic |-> BOOLEAN,
      min_threshold |-> {Q(1, 2), Zero, Q(2, 1), Q(3, 1)},
      max_threshold |-> {Q(2, 1), Q(1, 2), Q(1, 4)},
      batch_size |-> {1, 2, 0},
      device |-> {"cpu", "cuda", "tpu"},
      surrogate_gradient_function |->
          {"heaviside", "fast_sigmoid", "gaussian", "arctan", "relu"},
      alpha |-> {One, Zero},
      allow_dynamic_spike_probability |-> BOOLEAN,
      adaptation_decay |-> {Q(1, 2), Zero, Q(-1, 2)},
      spike_increase |-> {Q(1, 2), Zero, Q(-1, 2)},
      depression_rate |-> {Q(1, 2), Zero, One, Q(3, 2), Q(-1, 2)},
      recovery_rate |-> {Q(1, 4), Zero, Q(2, 1), Q(-1, 4)},
      neuromod_transform |-> {"None", "identity", "constant"},
      learnable_threshold |-> BOOLEAN ]

ArgNames == DOMAIN BaseArgs

TrialArgs ==
    { [BaseArgs EXCEPT ![f] = v, ![g] = w]
        : <<f, v, g, w>> \in
            UNION { {f} \X ArgValues[f] \X {g} \X ArgValues[g]
                      : <<f, g>> \in ArgNames \X ArgNames } }

\* ------------------------------------------------------------------- state

VARIABLES
    pc,                  \* "new", "ready" or "failed" (the constructor raised)
    args,                \* the constructor's arguments
    V,                   \* membrane potential
    V_th,                \* threshold
    V_th_is_param,       \* V_th is an nn.Parameter
    spikes,              \* boolean spike tensor
    adaptation_current,
    synaptic_efficiency,
    neuromodulator,
    dsp,                 \* the DynamicSpikeProbability collaborator
    batch_size,          \* the batch_size attribute; 0 while it is not set
    calls,               \* calls made since construction
    last,                \* what the last call was, was given and returned
    twin                 \* a second group, for the two-run comparison

vars == <<pc, args, V, V_th, V_th_is_param, spikes, adaptation_current,
          synaptic_efficiency, neuromodulator, dsp, batch_size, calls, last, twin>>

\* The group's fields as one value.
Self ==
    [ V |-> V, V_th |-> V_th, V_th_is_param |-> V_th_is_param, spikes |-> spikes,
      adaptation_current |-> adaptation_current,
      synaptic_efficiency |-> synaptic_efficiency,
      neuromodulator |-> neuromodulator, dsp |-> dsp, batch_size |-> batch_size ]

Assign(s) ==
    /\ V' = s.V
    /\ V_th' = s.V_th
    /\ V_th_is_param' = s.V_th_is_param
    /\ spikes' = s.spikes
    /\ adaptation_current' = s.adaptation_current
    /\ synaptic_efficiency' = s.synaptic_efficiency
    /\ neuromodulator' = s.neuromodulator
    /\ dsp' = s.dsp
    /\ batch_size' = s.batch_size

\* dynamic_spike_probability is None.
NoDsp == [rows |-> 0, cols |-> 0, fresh |-> FALSE]

\* No tensor is allocated.
Unallocated ==
    [ V |-> Err, V_th |-> Err, V_th_is_param |-> FALSE, spikes |-> Err,
      adaptation_current |-> Err, synaptic_efficiency |-> Err,
      neuromodulator |-> Err, dsp |-> NoDsp, batch_size |-> 0 ]

NoCall ==
    [ op |-> "none", ok |-> TRUE, B |-> 0, I_shape |-> <<0, 0>>, I_zero |-> FALSE,
      mod_given |-> FALSE, ret |-> Err, pre_op |-> "none", pre_V_th |-> Err,
      pre_param |-> FALSE, resized |-> FALSE, noise |-> Full(1, 1, Zero),
      twin_ret |-> Err, twin_noise |-> Full(1, 1, Zero),
      dsp_called |-> FALSE, margin_rows |-> 0, dsp_rows |-> 0,
      proper |-> TRUE, only_steps |-> TRUE,
      pre |-> Unallocated, I |-> Err, mod |-> None, V_int |-> Err, margin |-> Err,
      fired |-> Err, z |-> None, u |-> None ]

\* ------------------------------------------------------------ collaborators

\* get_surrogate_fn: the names it knows.
SurrogateNames == {"heaviside", "fast_sigmoid", "gaussian", "arctan"}

\* get_surrogate_fn(name, alpha): the name when it is known, a ValueError
\* otherwise.
get_surrogate_fn(name) == IF name \in SurrogateNames THEN name ELSE "ValueError"

\* SpikeFunction.apply(x, name, alpha): the forward pass is the step function,
\* 1.0 where the margin is positive; the name and alpha shape the gradient only.
SpikeFunction(x) == LET f(m) == IF RLt(Zero, m) THEN One ELSE Zero IN Map(f, x)

\* Tensor.bool(): true where the entry is not zero.
TBool(t) == LET f(x) == x # Zero IN Map(f, t)

\* DynamicSpikeProbability(batch_size, num_neurons) and its reset(batch_size):
\* a zeroed internal state of shape (batch_size, num_neurons).
DspNew(b, n) == [rows |-> b, cols |-> n, fresh |-> TRUE]

\* DynamicSpikeProbability.forward(delta, prev_spikes): the internal state is
\* combined elementwise with both arguments.  The shape of the result, or
\* <<0, 0>> when the three cannot be broadcast together.
DspShape(d, delta, prev) ==
    LET r == Bc(Bc(d.rows, Rows(delta)), Rows(prev))
        c == Bc(Bc(d.cols, Cols(delta)), Cols(prev))
    IN  IF Bc(d.rows, Rows(delta)) = 0 \/ Bc(d.cols, Cols(delta)) = 0
           \/ r = 0 \/ c = 0
        THEN <<0, 0>> ELSE <<r, c>>

\* torch.sigmoid on the one input whose image is rational.
Sigmoid(x) == IF x = Zero THEN Q(1, 2) ELSE Err

\* ------------------------------------------------------------ construction

\* The asserts with the last one, on recovery_rate, left out.
FailedAssertNoRecovery(a) ==
    IF ~(a.num_neurons > 0) THEN "num_neurons"
    ELSE IF a.stochastic /\ ~RLt(Zero, a.noise_std) THEN "noise_std"
    ELSE IF ~RLt(Zero, a.tau) THEN "tau"
    ELSE IF ~RLt(Zero, a.min_threshold) THEN "min_threshold"
    ELSE IF ~RLt(a.min_threshold, a.max_threshold) THEN "max_threshold"
    ELSE IF ~RLt(Zero, a.dt) THEN "dt"
    ELSE IF ~(a.batch_size > 0) THEN "batch_size"
    ELSE IF a.device \notin {"cpu", "cuda"} THEN "device"
    ELSE IF a.surrogate_gradient_function
              \notin {"heaviside", "fast_sigmoid", "gaussian", "arctan"}
         THEN "surrogate_gradient_function"
    ELSE IF ~RLt(Zero, a.alpha) THEN "alpha"
    ELSE IF ~RLe(Zero, a.adaptation_decay) THEN "adaptation_decay"
    ELSE IF ~RLe(Zero, a.spike_increase) THEN "spike_increase"
    ELSE IF ~(RLe(Zero, a.depression_rate) /\ RLe(a.depression_rate, One))
         THEN "depression_rate"
    ELSE "none"

\* The assert statements of __init__, in order: the first one that fails, or
\* "none".
FailedAssert(a) ==
    IF ~(a.num_neurons > 0) THEN "num_neurons"
    ELSE IF a.stochastic /\ ~RLt(Zero, a.noise_std) THEN "noise_std"
    ELSE IF ~RLt(Zero, a.tau) THEN "tau"
    ELSE IF ~RLt(Zero, a.min_threshold) THEN "min_threshold"
    ELSE IF ~RLt(a.min_threshold, a.max_threshold) THEN "max_threshold"
    ELSE IF ~RLt(Zero, a.dt) THEN "dt"
    ELSE IF ~(a.batch_size > 0) THEN "batch_size"
    ELSE IF a.device \notin {"cpu", "cuda"} THEN "device"
    ELSE IF a.surrogate_gradient_function
              \notin {"heaviside", "fast_sigmoid", "gaussian", "arctan"}
         THEN "surrogate_gradient_function"
    ELSE IF ~RLt(Zero, a.alpha) THEN "alpha"
    ELSE IF ~RLe(Zero, a.adaptation_decay) THEN "adaptation_decay"
    ELSE IF ~RLe(Zero, a.spike_increase) THEN "spike_increase"
    ELSE IF ~(RLe(Zero, a.depression_rate) /\ RLe(a.depression_rate, One))
         THEN "depression_rate"
    ELSE IF ~RLe(Zero, a.recovery_rate) THEN "recovery_rate"
    ELSE "none"

\* The fields __init__ sets once the asserts have passed.  The state tensors
\* have shape (1, num_neurons) whatever batch_size is, and the collaborator is
\* built with batch_size=1.
InitFields(a) ==
    [ V |-> Full(1, a.num_neurons, Zero),
      V_th |-> Full(1, a.num_neurons, a.V_th),
      V_th_is_param |-> a.learnable_threshold,
      spikes |-> Full(1, a.num_neurons, FALSE),
      adaptation_current |-> Full(1, a.num_neurons, Zero),
      synaptic_efficiency |-> Full(1, a.num_neurons, One),
      neuromodulator |-> Full(1, a.num_neurons, One),
      dsp |-> IF a.allow_dynamic_spike_probability
              THEN DspNew(1, a.num_neurons) ELSE NoDsp,
      batch_size |-> 0 ]

\* __init__: [ok, s].  A failed assert raises before anything is allocated;
\* an unknown surrogate name that got past them would raise in
\* get_surrogate_fn, after V_th and the collaborator exist.
New(a) ==
    IF FailedAssert(a) # "none" THEN [ok |-> FALSE, s |-> Unallocated]
    ELSE IF get_surrogate_fn(a.surrogate_gradient_function) = "ValueError"
         THEN [ok |-> FALSE,
               s |-> [Unallocated EXCEPT !.V_th = InitFields(a).V_th,
                                         !.V_th_is_param = InitFields(a).V_th_is_param,
                                         !.dsp = InitFields(a).dsp]]
    ELSE [ok |-> TRUE, s |-> InitFields(a)]

\* ---------------------------------------------------------------- lifecycle

\* resize with V_th refilled from its first entry instead of its mean.
resizeFirstEntry(a, s, b) ==
    [ s EXCEPT
        !.V = Full(b, a.num_neurons, Zero),
        !.spikes = Full(b, a.num_neurons, FALSE),
        !.adaptation_current = Full(b, a.num_neurons, Zero),
        !.synaptic_efficiency = Full(b, a.num_neurons, One),
        !.neuromodulator = Full(b, a.num_neurons, One),
        !.V_th = Full(b, a.num_neurons, s.V_th[1][1]),
        !.V_th_is_param = s.V_th_is_param,
        !.dsp = IF s.dsp # NoDsp THEN DspNew(b, a.num_neurons) ELSE s.dsp ]

\* resize(batch_size)
resize(a, s, b) ==
    [ s EXCEPT
        !.V = Full(b, a.num_neurons, Zero),
        !.spikes = Full(b, a.num_neurons, FALSE),
        !.adaptation_current = Full(b, a.num_neurons, Zero),
        !.synaptic_efficiency = Full(b, a.num_neurons, One),
        !.neuromodulator = Full(b, a.num_neurons, One),
        !.V_th = IF s.V_th_is_param
                 THEN Full(b, a.num_neurons, Mean(s.V_th))
                 ELSE Full(b, a.num_neurons, Mean(s.V_th)),
        !.V_th_is_param = s.V_th_is_param,
        !.dsp = IF s.dsp # NoDsp THEN DspNew(b, a.num_neurons) ELSE s.dsp ]

\* initialize_states(batch_size)
initialize_states(a, s, b) ==
    [ s EXCEPT
        !.batch_size = b,
        !.V = Full(b, a.num_neurons, Zero),
        !.spikes = Full(b, a.num_neurons, FALSE),
        !.adaptation_current = Full(b, a.num_neurons, Zero),
        !.synaptic_efficiency = Full(b, a.num_neurons, One),
        !.neuromodulator = Full(b, a.num_neurons, One) ]

\* Tensor.zero_() / Tensor.fill_(v): in place, the shape is kept.
Fill(t, v) == LET f(x) == v IN Map(f, t)

\* reset with adaptation_current left as it is.
resetKeepsAdaptation(a, s) ==
    [ s EXCEPT
        !.V = Fill(s.V, Zero),
        !.spikes = Fill(s.spikes, FALSE),
        !.synaptic_efficiency = Fill(s.synaptic_efficiency, One),
        !.neuromodulator = Fill(s.neuromodulator, One),
        !.dsp = IF s.dsp # NoDsp THEN DspNew(Rows(s.V), a.num_neurons) ELSE s.dsp ]

\* reset()
reset(a, s) ==
    [ s EXCEPT
        !.V = Fill(s.V, Zero),
        !.spikes = Fill(s.spikes, FALSE),
        !.adaptation_current = Fill(s.adaptation_current, Zero),
        !.synaptic_efficiency = Fill(s.synaptic_efficiency, One),
        !.neuromodulator = Fill(s.neuromodulator, One),
        !.dsp = IF s.dsp # NoDsp THEN DspNew(Rows(s.V), a.num_neurons) ELSE s.dsp ]


\* ------------------------------------------------------------------ forward

\* Noise with the stochastic flag ignored: a sample is drawn in every mode.
NoiseAlways(a, I, z) == TScale(z, a.noise_std)

\* The noise term: randn_like(I) * noise_std in stochastic mode (z is the
\* sample, a tensor of the shape of I with one draw per entry), the scalar
\* 0.0 otherwise.
Noise(a, I, z) ==
    IF a.stochastic THEN TScale(z, a.noise_std)
    ELSE Full(1, 1, Zero)

\* The implicit resize taken only when the batch dimension differs.
ReconcileBatchOnly(a, s, I) == IF Rows(I) # Rows(s.V) THEN resize(a, s, Rows(I)) ELSE s

\* The implicit resize at the head of forward().
Reconcile(a, s, I) == IF Shape(I) # Shape(s.V) THEN resize(a, s, Rows(I)) ELSE s

\* The transforms a group is configured with: lambda m: m and
\* lambda m: torch.full(m.shape, 2.0).
neuromod_transform(name, mod) ==
    IF name = "identity" THEN mod ELSE Fill(mod, Q(2, 1))

\* The neuromodulator update with the gain put back to one when no
\* modulation is given.
ModulateOrOne(a, s, mod) ==
    IF mod # None
    THEN [s EXCEPT !.neuromodulator =
            IF a.neuromod_transform # "None"
            THEN neuromod_transform(a.neuromod_transform, mod)
            ELSE Map(Sigmoid, mod)]
    ELSE [s EXCEPT !.neuromodulator = Fill(s.neuromodulator, One)]

\* The neuromodulator update: the configured transform, or torch.sigmoid.
Modulate(a, s, mod) ==
    IF mod # None
    THEN [s EXCEPT !.neuromodulator =
            IF a.neuromod_transform # "None"
            THEN neuromod_transform(a.neuromod_transform, mod)
            ELSE Map(Sigmoid, mod)]
    ELSE s

\* The assignment self.V = V1, unless computing V1 raised.
StoreV(s, V1) ==
    IF V1 = Err THEN [ok |-> FALSE, s |-> s] ELSE [ok |-> TRUE, s |-> [s EXCEPT !.V = V1]]

\* I_eff, dV and V <- V + dV * dt + noise.
Membrane(a, s, I, z) ==
    StoreV(s, TAdd(TAdd(s.V,
                        TScale(TDivS(TSub(TSub(TAdd(TMul(I, s.synaptic_efficiency),
                                                    s.neuromodulator),
                                               s.adaptation_current),
                                          s.V),
                                     a.tau),
                               a.dt)),
                   Noise(a, I, z)))

\* The integration done before the neuromodulator update, with the gain of
\* the previous step.
IntegrateStaleGain(a, s, I, mod, z) ==
    [Membrane(a, Reconcile(a, s, I), I, z) EXCEPT !.s = Modulate(a, @, mod)]

\* forward() up to the membrane integration.  [ok, s]; when an operation
\* raises, s is the state the assignments before it have left.
Integrate(a, s, I, mod, z) == Membrane(a, Modulate(a, Reconcile(a, s, I), mod), I, z)

\* The collaborator's answer to (delta, prev_spikes), shp being the shape
\* of its result.
DspCall(s, delta, shp) ==
    IF shp = <<0, 0>>
    THEN [ok |-> FALSE, shape |-> <<0, 0>>, margin |-> Err, dsp |-> s.dsp,
          dsp_called |-> TRUE]
    ELSE [ok |-> Bc(shp[1], Rows(s.V)) # 0 /\ Bc(shp[2], Cols(s.V)) # 0,
          shape |-> <<Bc(shp[1], Rows(s.V)), Bc(shp[2], Cols(s.V))>>,
          margin |-> delta,
          dsp |-> [rows |-> shp[1], cols |-> shp[2], fresh |-> FALSE],
          dsp_called |-> TRUE]

\* spike_prob, _ = torch.sigmoid(delta): unpacking the tensor into two names
\* needs exactly two rows, and keeps the first as a one-dimensional spike_prob.
UnpackSigmoid(s, delta) ==
    IF Rows(delta) # 2
    THEN [ok |-> FALSE, shape |-> <<0, 0>>, margin |-> Err, dsp |-> s.dsp,
          dsp_called |-> FALSE]
    ELSE [ok |-> Bc(Cols(delta), Cols(s.V)) # 0,
          shape |-> <<Rows(s.V), Bc(Cols(delta), Cols(s.V))>>,
          margin |-> <<delta[1]>>,
          dsp |-> s.dsp,
          dsp_called |-> FALSE]

SpikeProbOf(a, s, delta) ==
    IF delta = Err
    THEN [ok |-> FALSE, shape |-> <<0, 0>>, margin |-> Err, dsp |-> s.dsp,
          dsp_called |-> FALSE]
    ELSE IF a.allow_dynamic_spike_probability
    THEN DspCall(s, delta, DspShape(s.dsp, delta, s.spikes))
    ELSE UnpackSigmoid(s, delta)

\* The stochastic branch up to the spike probability, on the integrated
\* state s: [ok, shape, margin, dsp, dsp_called].  shape is the shape of
\* rand_like(V) < spike_prob, margin the value of delta each probability is
\* computed from.
SpikeProb(a, s) == SpikeProbOf(a, s, TSub(s.V, s.V_th))

\* The threshold step with the parameter branch left out.
ClipThresholdPlainOnly(a, s) ==
    IF a.use_adaptive_threshold
    THEN IF s.V_th_is_param
         THEN s
         ELSE [s EXCEPT !.V_th = Clamp(s.V_th, a.min_threshold, a.max_threshold)]
    ELSE s

\* The threshold step with use_adaptive_threshold ignored.
ClipThresholdAlways(a, s) ==
    [s EXCEPT !.V_th = Clamp(s.V_th, a.min_threshold, a.max_threshold)]

\* The adaptive-threshold step at the end of forward().
ClipThreshold(a, s) ==
    IF a.use_adaptive_threshold
    THEN IF s.V_th_is_param
         THEN [s EXCEPT !.V_th = Clamp(s.V_th, a.min_threshold, a.max_threshold)]
         ELSE [s EXCEPT !.V_th = Clamp(s.V_th, a.min_threshold, a.max_threshold)]
    ELSE s

\* self.field = t, unless computing t raised.
Store(r, field, t) ==
    IF t = Err THEN [ok |-> FALSE, s |-> r.s]
    ELSE [ok |-> TRUE, s |-> [r.s EXCEPT ![field] = t]]

\* Reset by masking: V * (1 - spikes), zero where a neuron fired.
ResetOnFireMasked(a, r) ==
    IF ~r.ok THEN r ELSE Store(r, "V", TMul(r.s.V, TOneMinus(TFloat(r.s.spikes))))

\* self.V = torch.where(self.spikes, V_reset, self.V)
ResetOnFire(a, r) ==
    IF ~r.ok THEN r ELSE Store(r, "V", Where(r.s.spikes, a.V_reset, r.s.V))

\* The adaptation update with the increment added whether or not the neuron
\* fired: adaptation_current * decay + spike_increase
UpdateAdaptationAlways(a, r) ==
    IF ~r.ok THEN r
    ELSE Store(r, "adaptation_current",
               TAdd(TScale(r.s.adaptation_current, a.adaptation_decay),
                    Full(1, 1, a.spike_increase)))

\* adaptation_current <- adaptation_current * decay + spike_increase * spikes
UpdateAdaptation(a, r) ==
    IF ~r.ok THEN r
    ELSE Store(r, "adaptation_current",
               TAdd(TScale(r.s.adaptation_current, a.adaptation_decay),
                    TScale(TFloat(r.s.spikes), a.spike_increase)))

\* The efficiency update with the recovery term pulling toward 2:
\* e * (1 - depression_rate * spikes) + recovery_rate * (2 - e)
UpdateEfficiencyOvershoot(a, r) ==
    IF ~r.ok THEN r
    ELSE Store(r, "synaptic_efficiency",
               TAdd(TMul(r.s.synaptic_efficiency,
                         TOneMinus(TScale(TFloat(r.s.spikes), a.depression_rate))),
                    TScale(TAdd(TOneMinus(r.s.synaptic_efficiency), Full(1, 1, One)),
                           a.recovery_rate)))

\* synaptic_efficiency <- e * (1 - depression_rate * spikes) + recovery_rate * (1 - e)
UpdateEfficiency(a, r) ==
    IF ~r.ok THEN r
    ELSE Store(r, "synaptic_efficiency",
               TAdd(TMul(r.s.synaptic_efficiency,
                         TOneMinus(TScale(TFloat(r.s.spikes), a.depression_rate))),
                    TScale(TOneMinus(r.s.synaptic_efficiency), a.recovery_rate)))

UpdateThreshold(a, r) == IF ~r.ok THEN r ELSE [r EXCEPT !.s = ClipThreshold(a, r.s)]

\* forward() from the assignment of self.spikes on: reset on fire,
\* adaptation current, synaptic efficiency, threshold.  [ok, s].
AfterSpikes(a, s, sp) ==
    UpdateThreshold(a,
      UpdateEfficiency(a,
        UpdateAdaptation(a,
          ResetOnFire(a, [ok |-> TRUE, s |-> [s EXCEPT !.spikes = sp]]))))

\* What forward() hands back: the spikes when it returns, the state it
\* leaves, what it passed to the collaborator, and V_int, the value of self.V
\* between the integration and the reset on fire.
Outcome(post, resized, p, margin_rows, dsp_rows, V_int) ==
    [ ok |-> post.ok, s |-> post.s, V_int |-> V_int,
      ret |-> IF post.ok THEN post.s.spikes ELSE Err,
      resized |-> resized,
      dsp_called |-> p.dsp_called,
      margin_rows |-> IF p.dsp_called THEN margin_rows ELSE 0,
      dsp_rows |-> IF p.dsp_called THEN dsp_rows ELSE 0,
      margin |-> IF post.ok THEN p.margin ELSE Err ]

NoProb ==
    [ok |-> TRUE, shape |-> <<0, 0>>, margin |-> Err, dsp |-> NoDsp, dsp_called |-> FALSE]

\* The stochastic branch: spikes = rand_like(V) < spike_prob, u being the
\* outcome of the comparison.
StochasticSpikes(a, s, u, resized, p) ==
    IF ~p.ok
    THEN Outcome([ok |-> FALSE, s |-> [s EXCEPT !.dsp = p.dsp]], resized, p,
                 Rows(TSub(s.V, s.V_th)), s.dsp.rows, s.V)
    ELSE Outcome(AfterSpikes(a, [s EXCEPT !.dsp = p.dsp], u), resized, p,
                 Rows(TSub(s.V, s.V_th)), s.dsp.rows, s.V)

\* The surrogate branch: spikes = surrogate_fn(V - V_th).bool()
SurrogateSpikes(a, s, resized, spike_out) ==
    IF spike_out = Err THEN Outcome([ok |-> FALSE, s |-> s], resized, NoProb, 0, 0, s.V)
    ELSE Outcome(AfterSpikes(a, s, TBool(spike_out)), resized, NoProb, 0, 0, s.V)

SpikesFrom(a, pre, u, resized) ==
    IF ~pre.ok THEN Outcome(pre, resized, NoProb, 0, 0, Err)
    ELSE IF a.stochastic
    THEN StochasticSpikes(a, pre.s, u, resized, SpikeProb(a, pre.s))
    ELSE SurrogateSpikes(a, pre.s, resized, SpikeFunction(TSub(pre.s.V, pre.s.V_th)))

\* forward(I, external_modulation) on state s, with the random sample z of
\* the noise and the outcome u of the Bernoulli draws: [ok, s, ret, ...].
\* ok is FALSE when the call raises, and s is then the state it leaves.
forward(a, s, I, mod, z, u) ==
    SpikesFrom(a, Integrate(a, s, I, mod, z), u, Shape(I) # Shape(s.V))

\* ------------------------------------------------------------------ inputs

InputValues == {Zero, Q(4, 1)}

\* A tensor whose entries alternate between the two input values.
Checker(r, c) ==
    [i \in 1..r |-> [j \in 1..c |-> IF (i + j) % 2 = 0 THEN Q(4, 1) ELSE Zero]]

BatchSizes == 1..MaxBatch
Widths == 1..MaxWidth

\* Input currents of the group's own width: every batch size, three patterns.
WellShaped(a) ==
    UNION { {Full(b, a.num_neurons, v) : v \in InputValues}
              \cup {Checker(b, a.num_neurons)} : b \in BatchSizes }

\* Input currents whose neuron dimension is not num_neurons.
MisShaped(a) ==
    { Full(b, w, Q(4, 1)) : b \in BatchSizes, w \in Widths \ {a.num_neurons} }

\* The (I, external_modulation) pairs a step of a stochastic group is called
\* with: inputs of at most MaxSamples entries, of the group's width with and
\* without modulation, and of another width.
StochasticStepArgs(a) ==
    { <<Checker(b, a.num_neurons), None>>
        : b \in {b \in BatchSizes : b * a.num_neurons <= MaxSamples} }
    \cup { <<Checker(b, a.num_neurons), Full(b, a.num_neurons, Zero)>>
             : b \in {b \in BatchSizes : b * a.num_neurons <= MaxSamples} }
    \cup { <<Full(1, w, Q(4, 1)), None>>
             : w \in {w \in Widths \ {a.num_neurons} : w <= MaxSamples} }

\* The (I, external_modulation) pairs a step is called with.  The modulation
\* is not given, or is a tensor of the state's shape, or a (1, 1) tensor
\* (broadcastable to it).
StepArgs(a) ==
    IF a.stochastic THEN StochasticStepArgs(a)
    ELSE { <<I, None>> : I \in WellShaped(a) \cup MisShaped(a) }
         \cup { <<Checker(b, a.num_neurons), Full(b, a.num_neurons, Zero)>>
                  : b \in BatchSizes }
         \cup { <<Checker(b, a.num_neurons), Full(1, 1, Zero)>> : b \in BatchSizes }

\* Samples of torch.randn, per entry.
RandnSamples == {Q(-1, 1), Q(1, 2)}

\* The outcomes of randn_like(I): every entry is drawn on its own.  No
\* sample is drawn outside stochastic mode.
NoiseChoices(a, I) ==
    IF a.stochastic THEN Tensors(Rows(I), Cols(I), RandnSamples) ELSE {None}

\* Every boolean tensor of a shape.
Draws(r, c) == Tensors(r, c, BOOLEAN)

DrawsOf(p) == IF ~p.ok THEN {None} ELSE Draws(p.shape[1], p.shape[2])

DrawsAfter(a, pre) == IF ~pre.ok THEN {None} ELSE DrawsOf(SpikeProb(a, pre.s))

\* The outcomes of rand_like(V) < spike_prob: every probability is strictly
\* between 0 and 1, so every boolean tensor of the shape can come out.
DrawChoices(a, s, I, mod, z) ==
    IF ~a.stochastic THEN {None}
    ELSE DrawsAfter(a, Integrate(a, s, I, mod, z))

IsZero(I) == Entries(I) = {Zero}

\* ----------------------------------------------------------------- actions

Init ==
    /\ pc = "new"
    /\ args = BaseArgs
    /\ V = Err
    /\ V_th = Err
    /\ V_th_is_param = FALSE
    /\ spikes = Err
    /\ adaptation_current = Err
    /\ synaptic_efficiency = Err
    /\ neuromodulator = Err
    /\ dsp = NoDsp
    /\ batch_size = 0
    /\ calls = 0
    /\ last = NoCall
    /\ twin = Unallocated

\* History: no neuron of state s has fired yet.
NoneFired(s) ==
    Full(Rows(s.adaptation_current), Cols(s.adaptation_current), FALSE)

\* History: the neurons that have fired since the last lifecycle operation,
\* after a step with outcome r.  A step that resizes starts from none; a
\* step that raises adds none.
FiredAfter(a, fired, I, r) ==
    LET or(x, y) == x \/ y
    IN  IF r.resized
        THEN IF r.ok THEN Zip(or, Full(Rows(I), a.num_neurons, FALSE), r.ret)
             ELSE Full(Rows(I), a.num_neurons, FALSE)
        ELSE IF r.ok THEN Zip(or, fired, r.ret) ELSE fired

\* LIFNeuronGroup(**a), for a in S
ConstructFrom(S) ==
    /\ pc = "new"
    /\ \E a \in S :
         /\ args' = a
         /\ pc' = IF New(a).ok THEN "ready" ELSE "failed"
         /\ Assign(New(a).s)
         /\ last' = [NoCall EXCEPT !.op = "construct", !.ok = New(a).ok,
                                   !.fired = IF New(a).ok THEN NoneFired(New(a).s)
                                             ELSE Err]
    /\ UNCHANGED <<calls, twin>>

\* The part of the record of a call that every call fills alike.
Called(op, ok) ==
    [NoCall EXCEPT !.op = op, !.ok = ok, !.pre_op = last.op,
                   !.pre_V_th = V_th, !.pre_param = V_th_is_param,
                   !.proper = last.proper,
                   !.only_steps = (last.only_steps /\ op \in {"step", "reset"}),
                   !.pre = Self, !.fired = last.fired]

\* I has the group's width, and the modulation, when given, the shape of I.
Proper(a, I, mod) ==
    /\ Cols(I) = a.num_neurons
    /\ mod # None => Shape(mod) = Shape(I)

\* group(I, external_modulation)
Step ==
    /\ pc = "ready"
    /\ calls < MaxCalls
    /\ \E im \in StepArgs(args) : \E z \in NoiseChoices(args, im[1]) :
         \E u \in DrawChoices(args, Self, im[1], im[2], z) :
           \E I \in {im[1]} : \E mod \in {im[2]} :
           \E r \in {forward(args, Self, I, mod, z, u)} :
               /\ Assign(r.s)
               /\ last' = [Called("step", r.ok) EXCEPT
                             !.B = Rows(I), !.I_shape = Shape(I), !.I_zero = IsZero(I),
                             !.mod_given = (mod # None), !.ret = r.ret,
                             !.resized = r.resized,
                             !.noise = Noise(args, I, z),
                             !.dsp_called = r.dsp_called,
                             !.margin_rows = r.margin_rows, !.dsp_rows = r.dsp_rows,
                             !.proper = (last.proper /\ Proper(args, I, mod)),
                             !.I = I, !.mod = mod, !.V_int = r.V_int,
                             !.margin = r.margin,
                             !.fired = FiredAfter(args, last.fired, I, r),
                             !.z = z, !.u = u]
    /\ calls' = calls + 1
    /\ UNCHANGED <<pc, args, twin>>

\* group.resize(b)
Resize ==
    /\ pc = "ready"
    /\ calls < MaxCalls
    /\ \E b \in BatchSizes :
         /\ Assign(resize(args, Self, b))
         /\ last' = [Called("resize", TRUE) EXCEPT
                       !.B = b, !.fired = NoneFired(resize(args, Self, b))]
    /\ calls' = calls + 1
    /\ UNCHANGED <<pc, args, twin>>

\* group.initialize_states(b)
InitializeStates ==
    /\ pc = "ready"
    /\ calls < MaxCalls
    /\ \E b \in BatchSizes :
         /\ Assign(initialize_states(args, Self, b))
         /\ last' = [Called("initialize_states", TRUE) EXCEPT
                       !.B = b, !.fired = NoneFired(initialize_states(args, Self, b))]
    /\ calls' = calls + 1
    /\ UNCHANGED <<pc, args, twin>>

\* group.reset()
Reset ==
    /\ pc = "ready"
    /\ calls < MaxCalls
    /\ Assign(reset(args, Self))
    /\ last' = [Called("reset", TRUE) EXCEPT !.fired = NoneFired(reset(args, Self))]
    /\ calls' = calls + 1
    /\ UNCHANGED <<pc, args, twin>>

Construct == ConstructFrom(GroupArgs)

Next == Construct \/ Step \/ Resize \/ InitializeStates \/ Reset

Spec == Init /\ [][Next]_vars

\* Construction alone, over the trial argument lists.
ConstructTrial == ConstructFrom(TrialArgs)

NextNew == ConstructTrial

SpecNew == Init /\ [][NextNew]_vars

\* ---------------------------------------------------------------- training

\* The values an optimizer leaves in the threshold.
ThresholdValues == {Q(1, 4), Q(3, 1)}

\* An optimizer step between two calls: V_th, when it is a parameter, gets
\* new entries (v and w alternating).
OptimizerStep ==
    /\ pc = "ready"
    /\ calls < MaxCalls
    /\ V_th_is_param
    /\ \E v \in ThresholdValues : \E w \in ThresholdValues :
         V_th' = [i \in 1..Rows(V_th) |->
                    [j \in 1..Cols(V_th) |-> IF (i + j) % 2 = 0 THEN v ELSE w]]
    /\ last' = Called("optimizer", TRUE)
    /\ calls' = calls + 1
    /\ UNCHANGED <<pc, args, V, V_th_is_param, spikes, adaptation_current,
                   synaptic_efficiency, neuromodulator, dsp, batch_size, twin>>

NextTrain == Next \/ OptimizerStep

SpecTrain == Init /\ [][NextTrain]_vars

\* ---------------------------------------------------------------- two runs

\* Two groups built from the same arguments and called alike; each call
\* draws its own random sample.  The first is the state above, the second
\* is twin.
PairSamples == {Q(-1, 1), Q(1, 1)}

ConstructPair ==
    /\ pc = "new"
    /\ \E a \in DeterministicArgs :
         /\ args' = a
         /\ pc' = IF New(a).ok THEN "ready" ELSE "failed"
         /\ Assign(New(a).s)
         /\ twin' = New(a).s
         /\ last' = [NoCall EXCEPT !.op = "construct", !.ok = New(a).ok]
    /\ UNCHANGED calls

StepPair ==
    /\ pc = "ready"
    /\ calls < MaxCalls
    /\ \E im \in StepArgs(args) :
         \E z1 \in {Full(Rows(im[1]), Cols(im[1]), x) : x \in PairSamples} :
         \E z2 \in {Full(Rows(im[1]), Cols(im[1]), x) : x \in PairSamples} :
         \E r1 \in {forward(args, Self, im[1], im[2], z1, None)} :
         \E r2 \in {forward(args, twin, im[1], im[2], z2, None)} :
           /\ Assign(r1.s)
           /\ twin' = r2.s
           /\ last' = [Called("step", r1.ok) EXCEPT
                         !.B = Rows(im[1]), !.I_shape = Shape(im[1]),
                         !.I_zero = IsZero(im[1]), !.mod_given = (im[2] # None),
                         !.ret = r1.ret, !.resized = r1.resized,
                         !.noise = Noise(args, im[1], z1),
                         !.twin_ret = r2.ret,
                         !.twin_noise = Noise(args, im[1], z2),
                         !.proper = (last.proper /\ Proper(args, im[1], im[2]))]
    /\ calls' = calls + 1
    /\ UNCHANGED <<pc, args>>

LifecyclePair ==
    /\ pc = "ready"
    /\ calls < MaxCalls
    /\ \/ \E b \in BatchSizes :
            /\ Assign(resize(args, Self, b))
            /\ twin' = resize(args, twin, b)
            /\ last' = [Called("resize", TRUE) EXCEPT !.B = b]
       \/ \E b \in BatchSizes :
            /\ Assign(initialize_states(args, Self, b))
            /\ twin' = initialize_states(args, twin, b)
            /\ last' = [Called("initialize_states", TRUE) EXCEPT !.B = b]
       \/ /\ Assign(reset(args, Self))
          /\ twin' = reset(args, twin)
          /\ last' = Called("reset", TRUE)
    /\ calls' = calls + 1
    /\ UNCHANGED <<pc, args>>

NextPair == ConstructPair \/ StepPair \/ LifecyclePair

SpecPair == Init /\ [][NextPair]_vars

\* ------------------------------------------------------------------ claims

Ready == pc = "ready"

InBounds(t, lo, hi) == \A x \in Entries(t) : RLe(lo, x) /\ RLe(x, hi)

StateShapes ==
    { Shape(V), Shape(V_th), Shape(spikes), Shape(adaptation_current),
      Shape(synaptic_efficiency), Shape(neuromodulator) }

\* C1: with use_adaptive_threshold enabled, after every step call that
\* returns, whatever V_th was before it (outside the bounds at construction,
\* averaged by a resize, rewritten by an optimizer), every entry of V_th lies
\* in [min_threshold, max_threshold].
C1_ThresholdClipped ==
    (Ready /\ args.use_adaptive_threshold /\ last.op = "step" /\ last.ok)
        => InBounds(V_th, args.min_threshold, args.max_threshold)

\* A step that returned, on a threshold that was above max_threshold and
\* not uniform, clipped to the bounds.
C1_Witness ==
    /\ Ready /\ args.use_adaptive_threshold /\ last.op = "step" /\ last.ok
    /\ last.pre_op = "optimizer"
    /\ \E x \in Entries(last.pre_V_th) : RLt(args.max_threshold, x)
    /\ \E x \in Entries(last.pre_V_th) : RLt(x, args.min_threshold)
    /\ args.max_threshold \in Entries(V_th)
    /\ args.min_threshold \in Entries(V_th)

\* C2: in every state reached from construction by resize,
\* initialize_states, reset and step calls (every step with an input of the
\* group's width and a modulation, if any, of the input's shape), the six
\* per-neuron tensors have one and the same shape.
C2_OneShape == (Ready /\ last.proper) => Cardinality(StateShapes) = 1

\* C3: resize(B) leaves every field with shape (B, num_neurons), V, spikes
\* and adaptation_current zero, synaptic_efficiency and neuromodulator one,
\* every entry of V_th equal to the mean of V_th's entries before the call,
\* and V_th a parameter exactly when it was one.
C3_ResizePostcondition ==
    (Ready /\ last.op = "resize") =>
        /\ StateShapes = {<<last.B, args.num_neurons>>}
        /\ Entries(V) = {Zero}
        /\ Entries(spikes) = {FALSE}
        /\ Entries(adaptation_current) = {Zero}
        /\ Entries(synaptic_efficiency) = {One}
        /\ Entries(neuromodulator) = {One}
        /\ \A x \in Entries(V_th) :
             RMul(x, <<Rows(last.pre_V_th) * Cols(last.pre_V_th), 1>>)
                 = SumRows(last.pre_V_th)
        /\ V_th_is_param = last.pre_param

\* A resize to another batch size of a threshold whose entries differed.
C3_Witness ==
    /\ Ready /\ last.op = "resize"
    /\ Cardinality(Entries(last.pre_V_th)) = 2
    /\ Rows(last.pre_V_th) # last.B
    /\ Entries(V_th) = {Q(13, 8)}

\* The spikes a freshly constructed group returns for the all-zero input of
\* the given shape.
FreshSpikes(shape) ==
    forward(args, New(args).s, Full(shape[1], shape[2], Zero), None, Zero, None).ret

\* Since construction only steps and resets were called, and the last two
\* calls are a reset and a step with all-zero input and no modulation.
ResetThenZeroStep ==
    /\ Ready /\ ~args.stochastic /\ last.only_steps
    /\ last.op = "step" /\ last.pre_op = "reset" /\ last.I_zero /\ ~last.mod_given

\* C4 as claimed: in non-stochastic mode, for every valid configuration,
\* reset() and then a step with all-zero input returns the spikes a freshly
\* constructed group returns for the same input (here for the runs whose
\* steps all had an input of the group's width).
C4_ResetLikeFresh ==
    (ResetThenZeroStep /\ last.proper) => last.ret = FreshSpikes(last.I_shape)

ThresholdStartsInBounds ==
    RLe(args.min_threshold, args.V_th) /\ RLe(args.V_th, args.max_threshold)

\* C4 as amended: the same, for the configurations whose initial V_th lies
\* in [min_threshold, max_threshold] or whose adaptive threshold is disabled.
C4_ResetLikeFreshInBounds ==
    (ResetThenZeroStep /\ (ThresholdStartsInBounds \/ ~args.use_adaptive_threshold))
        => last.ret = FreshSpikes(last.I_shape)

\* Steps, a reset, and a zero-input step in which neurons fire.
C4_Witness ==
    /\ ResetThenZeroStep /\ (ThresholdStartsInBounds \/ ~args.use_adaptive_threshold)
    /\ calls = 3 /\ last.ok
    /\ TRUE \in Entries(last.ret)

\* C5: with adaptive threshold, stochastic mode and dynamic spike
\* probability all disabled, every entry of V_th keeps its construction-time
\* value through steps (resizing ones included) and lifecycle calls.
C5_ThresholdUntouched ==
    (Ready /\ ~args.use_adaptive_threshold /\ ~args.stochastic
           /\ ~args.allow_dynamic_spike_probability)
        => Entries(V_th) = {args.V_th}

\* A resizing step in which neurons fired, after earlier calls.
C5_Witness ==
    /\ Ready /\ ~args.use_adaptive_threshold /\ ~args.stochastic
    /\ ~args.allow_dynamic_spike_probability
    /\ calls = 3 /\ last.op = "step" /\ last.ok /\ last.resized
    /\ TRUE \in Entries(last.ret)
    /\ Shape(V_th) = <<2, 2>>

\* C6: with depression_rate and recovery_rate in [0, 1], every entry of
\* synaptic_efficiency stays within [0, 1].
C6_EfficiencyBounded ==
    (Ready /\ RLe(Zero, args.depression_rate) /\ RLe(args.depression_rate, One)
           /\ RLe(Zero, args.recovery_rate) /\ RLe(args.recovery_rate, One))
        => InBounds(synaptic_efficiency, Zero, One)

\* Both ends are reached: one neuron's efficiency is 0 and another's is 1
\* after a step.
C6_Witness ==
    /\ Ready /\ last.op = "step" /\ last.ok
    /\ Zero \in Entries(synaptic_efficiency)
    /\ One \in Entries(synaptic_efficiency)
    /\ calls >= 2

\* C7: a step whose input has a neuron dimension other than num_neurons
\* raises.
C7_NeuronMismatchRaises ==
    (Ready /\ last.op = "step" /\ last.I_shape[2] # args.num_neurons) => ~last.ok

\* C8: after resize, initialize_states and reset the collaborator has been
\* reset for the batch size the state tensors now have, and no step hands
\* the collaborator a margin whose batch size is not the collaborator's own.
C8_CollaboratorFollowsBatch ==
    (Ready /\ args.allow_dynamic_spike_probability) =>
        /\ last.op \in {"resize", "initialize_states", "reset"}
             => (dsp.rows = Rows(V) /\ dsp.fresh)
        /\ (last.op = "step" /\ last.dsp_called) => last.margin_rows = last.dsp_rows

\* C9: in non-stochastic mode two runs of the same calls from the same
\* state, each with its own random samples, return the same spikes and end
\* in the same state, and the noise added to V is zero.
C9_Deterministic ==
    (Ready /\ ~args.stochastic) =>
        /\ twin = Self
        /\ last.op = "step" => (last.twin_ret = last.ret
                                /\ Entries(last.noise) = {Zero}
                                /\ Entries(last.twin_noise) = {Zero})

\* Two runs, each with its own samples, after a third call that is a step
\* in which a neuron fired and another did not.
C9_Witness ==
    /\ Ready /\ ~args.stochastic /\ last.op = "step" /\ last.ok /\ calls = 3
    /\ Entries(last.ret) = {TRUE, FALSE}
    /\ twin.V = V

\* The constraints on the constructor's arguments, as the claim lists them.
ViolatesConstraint(a) ==
    \/ a.num_neurons <= 0
    \/ a.batch_size <= 0
    \/ RLe(a.tau, Zero)
    \/ RLe(a.dt, Zero)
    \/ RLe(a.alpha, Zero)
    \/ RLe(a.min_threshold, Zero)
    \/ RLe(a.max_threshold, a.min_threshold)
    \/ (a.stochastic /\ RLe(a.noise_std, Zero))
    \/ RLt(a.adaptation_decay, Zero)
    \/ RLt(a.spike_increase, Zero)
    \/ RLt(a.depression_rate, Zero) \/ RLt(One, a.depression_rate)
    \/ RLt(a.recovery_rate, Zero)
    \/ a.surrogate_gradient_function \notin {"heaviside", "fast_sigmoid", "gaussian", "arctan"}
    \/ a.device \notin {"cpu", "cuda"}

\* C10: construction fails, with no state tensor allocated, exactly when
\* an argument violates its constraint.
C10_ConstructionValidated ==
    (pc # "new") =>
        /\ (pc = "failed") <=> ViolatesConstraint(args)
        /\ (pc = "failed") => Self = Unallocated
        /\ (pc = "ready") => Self = InitFields(args)

\* A construction that failed on the last assert alone.
C10_Witness ==
    /\ pc = "failed"
    /\ RLt(args.recovery_rate, Zero)
    /\ [args EXCEPT !.recovery_rate = BaseArgs.recovery_rate] = BaseArgs

\* The positions of a tensor.
Positions(t) == (1..Rows(t)) \X (1..Cols(t))

\* A step that returned without resizing, on a state whose threshold has the
\* shape of the returned spikes.
PlainStep ==
    /\ Ready /\ last.op = "step" /\ last.ok /\ ~last.resized
    /\ Shape(last.pre.V_th) = Shape(last.ret)
    /\ Shape(V_th) = Shape(last.ret)

\* C11: the adaptive-threshold update can be selected to be push-and-decay.
\* The constructor has no parameter that names a policy; eta, its rate of
\* threshold adaptation, is the one parameter a push could be selected
\* with.  So: with use_adaptive_threshold on and eta positive, a step raises
\* V_th of every neuron that fired and whose threshold was below
\* max_threshold.
C11_PushAndDecaySelectable ==
    (PlainStep /\ args.use_adaptive_threshold /\ RLt(Zero, args.eta)) =>
        \A p \in Positions(last.ret) :
            (last.ret[p[1]][p[2]]
               /\ RLt(last.pre.V_th[p[1]][p[2]], args.max_threshold))
            => RLt(last.pre.V_th[p[1]][p[2]], V_th[p[1]][p[2]])

\* The threshold the last step compared V with: V_th as the step found it,
\* or refilled with its mean when the step resized.
UsedThreshold ==
    IF last.resized
    THEN Full(Rows(last.I), args.num_neurons, Mean(last.pre.V_th))
    ELSE last.pre.V_th

\* C12: in stochastic mode with dynamic spike probability disabled, a step
\* with an input of the group's width completes for every batch size, the
\* spikes have the input's shape, and the probability of (b, n) is the
\* logistic of V[b, n] - V_th[b, n] of that same row and neuron.
C12_PlainLogisticPerNeuron ==
    (Ready /\ args.stochastic /\ ~args.allow_dynamic_spike_probability
           /\ last.op = "step" /\ last.proper) =>
        /\ last.ok
        /\ Shape(last.ret) = Shape(last.I)
        /\ \A p \in Positions(last.ret) :
              At(last.margin, p[1], p[2])
                  = RSub(last.V_int[p[1]][p[2]], At(UsedThreshold, p[1], p[2]))

\* What the last step found at position p once its shape check was done:
\* the state before the call, or the fills of a resize when it resized.
PrevV(p) == IF last.resized THEN Zero ELSE At(last.pre.V, p[1], p[2])
PrevEfficiency(p) ==
    IF last.resized THEN One ELSE At(last.pre.synaptic_efficiency, p[1], p[2])
PrevAdaptation(p) ==
    IF last.resized THEN Zero ELSE At(last.pre.adaptation_current, p[1], p[2])
PrevGain(p) == IF last.resized THEN One ELSE At(last.pre.neuromodulator, p[1], p[2])

\* The neuromodulator the last step integrated with: the transformed
\* modulation when one was given.
Gain(p) ==
    IF ~last.mod_given THEN PrevGain(p)
    ELSE IF args.neuromod_transform = "None" THEN Sigmoid(At(last.mod, p[1], p[2]))
    ELSE IF args.neuromod_transform = "identity" THEN At(last.mod, p[1], p[2])
    ELSE Q(2, 1)

\* V_prev + dt * (I_eff - V_prev) / tau + noise at position p, with
\* I_eff = I * synaptic_efficiency + neuromodulator - adaptation_current.
IntegratedValue(p) ==
    RAdd(RAdd(PrevV(p),
              RMul(RDiv(RSub(RSub(RAdd(RMul(At(last.I, p[1], p[2]), PrevEfficiency(p)),
                                       Gain(p)),
                                  PrevAdaptation(p)),
                             PrevV(p)),
                        args.tau),
                   args.dt)),
         At(last.noise, p[1], p[2]))

\* C13: after every step that returns, V is V_reset wherever the returned
\* spike is true, and the value integrated in that step wherever it is false.
C13_ResetOnFire ==
    (Ready /\ last.op = "step" /\ last.ok) =>
        /\ Shape(V) = Shape(last.ret)
        /\ \A p \in Positions(last.ret) :
              V[p[1]][p[2]] = IF last.ret[p[1]][p[2]] THEN args.V_reset
                              ELSE IntegratedValue(p)

\* A later step of a group with a non-zero V_reset in which one neuron
\* fired and another did not, the latter ending at a value that is neither
\* zero nor its previous one.
C13_Witness ==
    /\ Ready /\ last.op = "step" /\ last.ok /\ last.pre_op = "step"
    /\ args.V_reset # Zero
    /\ \E p \in Positions(last.ret) :
          last.ret[p[1]][p[2]] /\ V[p[1]][p[2]] = args.V_reset
    /\ \E p \in Positions(last.ret) :
          ~last.ret[p[1]][p[2]] /\ V[p[1]][p[2]] \notin {Zero, PrevV(p)}

\* C14: a step without external_modulation on a state that already has the
\* input's shape leaves neuromodulator as it was before the step; a resize
\* (explicit, or implied by a step without modulation), a reset and an
\* initialize_states leave it all one.
C14_GainPersists ==
    Ready =>
        /\ (last.op = "step" /\ ~last.mod_given /\ ~last.resized)
              => neuromodulator = last.pre.neuromodulator
        /\ (last.op = "step" /\ ~last.mod_given /\ last.resized)
              => Entries(neuromodulator) = {One}
        /\ last.op \in {"resize", "reset", "initialize_states"}
              => Entries(neuromodulator) = {One}

\* A gain of 1/2 set by a step with modulation is still there after two
\* steps without modulation.
C14_Witness ==
    /\ Ready /\ calls = 3
    /\ last.op = "step" /\ last.ok /\ ~last.mod_given /\ ~last.resized
    /\ last.pre_op = "step"
    /\ Entries(last.pre.neuromodulator) = {Q(1, 2)}
    /\ Entries(neuromodulator) = {Q(1, 2)}

\* 1.0 or 0.0: the returned spike at position p, as a float.
SpikeAt(p) == IF At(last.ret, p[1], p[2]) THEN One ELSE Zero

\* C15: in a step that returns, the membrane is integrated from the
\* synaptic_efficiency and adaptation_current the previous step left and
\* from the neuromodulator this step has set, and both are then updated
\* with this step's spikes:
\*   adaptation_current' = adaptation_current * adaptation_decay + spike_increase * spikes
\*   synaptic_efficiency' = synaptic_efficiency * (1 - depression_rate * spikes)
\*                          + recovery_rate * (1 - synaptic_efficiency)
C15_UpdateOrder ==
    (Ready /\ last.op = "step" /\ last.ok) =>
        /\ \A p \in Positions(last.V_int) :
              last.V_int[p[1]][p[2]] = IntegratedValue(p)
        /\ \A p \in Positions(adaptation_current) :
              adaptation_current[p[1]][p[2]]
                  = RAdd(RMul(PrevAdaptation(p), args.adaptation_decay),
                         RMul(args.spike_increase, SpikeAt(p)))
        /\ \A p \in Positions(synaptic_efficiency) :
              synaptic_efficiency[p[1]][p[2]]
                  = RAdd(RMul(PrevEfficiency(p),
                              RSub(One, RMul(args.depression_rate, SpikeAt(p)))),
                         RMul(args.recovery_rate, RSub(One, PrevEfficiency(p))))

\* A step with modulation, on a state in which an earlier spike has left an
\* adaptation current and a depressed efficiency and the gain was one, and
\* in which a neuron fires and another does not.
C15_Witness ==
    /\ Ready /\ last.op = "step" /\ last.ok /\ ~last.resized /\ last.mod_given
    /\ Entries(last.pre.neuromodulator) = {One}
    /\ \E x \in Entries(last.pre.adaptation_current) : x # Zero
    /\ \E x \in Entries(last.pre.synaptic_efficiency) : x # One
    /\ Entries(last.ret) = {TRUE, FALSE}

\* C16: with adaptation_decay and spike_increase non-negative, every entry
\* of adaptation_current is non-negative in every state, and is zero for a
\* neuron that has not fired since the state was last filled (by the
\* constructor, resize, initialize_states, reset or the resize of a step).
C16_AdaptationNonNegative ==
    (Ready /\ RLe(Zero, args.adaptation_decay) /\ RLe(Zero, args.spike_increase)) =>
        \A p \in Positions(adaptation_current) :
            /\ RLe(Zero, adaptation_current[p[1]][p[2]])
            /\ ~At(last.fired, p[1], p[2]) => adaptation_current[p[1]][p[2]] = Zero

\* After three calls: a neuron that fired in an earlier step and not in the
\* last one still has a positive adaptation current, and a neuron that never
\* fired has none.
C16_Witness ==
    /\ Ready /\ calls = 3 /\ last.op = "step" /\ last.ok /\ last.pre_op = "step"
    /\ Shape(last.fired) = Shape(adaptation_current)
    /\ Shape(last.ret) = Shape(adaptation_current)
    /\ \E p \in Positions(adaptation_current) :
          /\ last.fired[p[1]][p[2]] /\ ~last.ret[p[1]][p[2]]
          /\ RLt(Zero, adaptation_current[p[1]][p[2]])
    /\ \E p \in Positions(adaptation_current) :
          ~last.fired[p[1]][p[2]] /\ adaptation_current[p[1]][p[2]] = Zero

\* resize(I.shape[0]) and then the last step again, from the state before
\* it, with the same input, modulation and random draws.
ResizeThenStep ==
    forward(args, resize(args, last.pre, Rows(last.I)), last.I, last.mod, last.z, last.u)

\* The outcome of the last step equals outcome r.
SameOutcome(r) == r.ok = last.ok /\ r.ret = last.ret /\ r.s = Self

\* C17: a step whose input shape differs from the shape of V returns what
\* resize(I.shape[0]) followed by the same step returns, and leaves the
\* same state.  A step whose input shape equals the shape of V refills
\* nothing: V_th keeps its entries (clipped when adaptive), the collaborator
\* is not reset, the gain is kept unless a modulation is given, and the
\* membrane is integrated from V, synaptic_efficiency and adaptation_current
\* as the step found them.
C17_ImplicitResize ==
    (Ready /\ last.op = "step") =>
        /\ last.resized => SameOutcome(ResizeThenStep)
        /\ ~last.resized =>
              /\ V_th = IF args.use_adaptive_threshold /\ last.ok
                        THEN Clamp(last.pre.V_th, args.min_threshold, args.max_threshold)
                        ELSE last.pre.V_th
              /\ dsp.fresh => dsp = last.pre.dsp
              /\ ~last.mod_given => neuromodulator = last.pre.neuromodulator
              /\ last.ok => \A p \in Positions(last.V_int) :
                               last.V_int[p[1]][p[2]] = IntegratedValue(p)

\* A step with another batch size on a state in which earlier steps have
\* left a membrane potential, an adaptation current, a depressed efficiency
\* and a gain of 1/2, and a threshold whose entries differ.
C17_Witness ==
    /\ Ready /\ last.op = "step" /\ last.ok /\ last.resized
    /\ Rows(last.I) # Rows(last.pre.V)
    /\ \E x \in Entries(last.pre.V) : x # Zero
    /\ \E x \in Entries(last.pre.adaptation_current) : x # Zero
    /\ \E x \in Entries(last.pre.synaptic_efficiency) : x # One
    /\ Entries(last.pre.neuromodulator) = {Q(1, 2)}
    /\ Cardinality(Entries(last.pre.V_th)) = 2
    /\ TRUE \in Entries(last.ret)

=============================================================================
